---- MODULE Spec2Model ----
(***************************************************************************)
(* A model of garagemq's exchange package (Exchange and its binding set),  *)
(* of the server's exchange.declare handler, and of the BuntDB storage     *)
(* wrapper.                                                                *)
(*                                                                         *)
(* The state machines share this module; each specification moves its      *)
(* own variables and leaves the others at their initial values:            *)
(*   Spec      concurrent handlers calling the methods of one Exchange     *)
(*   SeqSpec   the same methods, one call at a time                        *)
(*   DeclSpec  concurrent channels running Channel.exchangeDeclare         *)
(*   StoreSpec concurrent clients of one BuntDB wrapper                    *)
(*   MutSpec   concurrent handlers calling the mutators of one Exchange    *)
(*   SnapSpec  concurrent handlers calling the mutators and GetBindings    *)
(*   RouteSpec GetMatchedQueues over exchanges of every kind byte          *)
(*   MarshalSpec Marshal and Unmarshal of exchanges of bounded names       *)
(*   EqualSpec EqualWithErr over pairs of exchanges                        *)
(*   GcSpec    the storage wrapper with its compaction task and Close      *)
(***************************************************************************)
EXTENDS Integers, Sequences, FiniteSets, TLC

(***************************************************************************)
(* Bounds of the model.                                                    *)
(***************************************************************************)
\* AppendBinding is only called while the binding set is shorter than this.
MaxBindings == 2

(***************************************************************************)
(* Exchange: types and the data the handlers pass in.                      *)
(***************************************************************************)
\* available exchange types (iota + 1)
ExTypeDirect == 1
ExTypeFanout == 2
ExTypeTopic == 3
ExTypeHeaders == 4

\* the kind bytes an Exchange is constructed with; 0 and 5 are the bytes a
\* decoded record can hold that name no exchange type
ExTypeBytes == 0 .. 5

Handlers == {"h1", "h2"}
NoHandler == "none"

QueueNames == {"q1", "q2"}
\* a routing key is the sequence of its dot-separated words
MsgKeys == {<<"a">>, <<"b">>}

\* the nil *binding.Binding (an array slot no append has written)
NoBinding == [exchange |-> "", routingKey |-> <<>>, queue |-> ""]
\* the bindings the handlers pass in: any two differ in one field or more,
\* and each field is the only difference of some pair
BindingUniverse ==
    { [exchange |-> "ex", routingKey |-> <<"a">>, queue |-> "q1"],
      [exchange |-> "ex", routingKey |-> <<"a">>, queue |-> "q2"],
      [exchange |-> "ex", routingKey |-> <<"*">>, queue |-> "q2"],
      [exchange |-> "other", routingKey |-> <<"a">>, queue |-> "q1"] }
\* the messages routed: published to exchange "ex"
Messages == [Exchange : {"ex"}, RoutingKey : MsgKeys]
NoMessage == [Exchange |-> "", RoutingKey |-> <<>>]

(***************************************************************************)
(* The binding package (interface Binding).                                *)
(***************************************************************************)
GetQueue(bind) == bind.queue

Equal(bind, other) ==
    /\ bind.exchange = other.exchange
    /\ bind.routingKey = other.routingKey
    /\ bind.queue = other.queue

MatchDirect(bind, exchange, routingKey) ==
    bind.exchange = exchange /\ bind.routingKey = routingKey

MatchFanout(bind, exchange) == bind.exchange = exchange

\* pattern and key are sequences of words; "*" is one word, "#" zero or more
RECURSIVE TopicMatches(_, _)
TopicMatches(pattern, key) ==
    IF pattern = <<>> THEN key = <<>>
    ELSE IF Head(pattern) = "#"
         THEN \/ TopicMatches(Tail(pattern), key)
              \/ (key # <<>> /\ TopicMatches(pattern, Tail(key)))
    ELSE IF key = <<>> THEN FALSE
    ELSE /\ (Head(pattern) = "*" \/ Head(pattern) = Head(key))
         /\ TopicMatches(Tail(pattern), Tail(key))

MatchTopic(bind, exchange, routingKey) == TopicMatches(bind.routingKey, routingKey)

(***************************************************************************)
(* Go slices.  ex.bindings is a slice header (array, len, cap); the array  *)
(* is `backing` (its length is the cap) and the len is `blen`.             *)
(***************************************************************************)
\* runtime growslice for one appended pointer: 0 -> 1, else double
GrowCap(cap) == IF cap = 0 THEN 1 ELSE 2 * cap

\* the cap of a slice built by n appends to a nil slice
RECURSIVE CapAfterAppends(_)
CapAfterAppends(n) ==
    IF n = 0 THEN 0
    ELSE LET c == CapAfterAppends(n - 1) IN IF n <= c THEN c ELSE GrowCap(c)

\* an array of n slots holding s in its first Len(s) slots
ArrayOf(s, n) == [i \in 1 .. n |-> IF i <= Len(s) THEN s[i] ELSE NoBinding]

\* the index of the first element of s that Equal()s b, 0 when there is none
FirstEqual(s, b) ==
    IF \E i \in 1 .. Len(s) : Equal(s[i], b)
    THEN CHOOSE i \in 1 .. Len(s) :
            /\ Equal(s[i], b)
            /\ \A j \in 1 .. (i - 1) : ~Equal(s[j], b)
    ELSE 0

\* the loop of RemoveQueueBindings building its slices back to front
RECURSIVE FilterQueueReversed(_, _, _)
FilterQueueReversed(s, queueName, keep) ==
    IF s = <<>> THEN <<>>
    ELSE LET rest == FilterQueueReversed(Tail(s), queueName, keep)
         IN  IF (GetQueue(Head(s)) # queueName) = keep
             THEN rest \o <<Head(s)>>
             ELSE rest

RECURSIVE FilterQueue(_, _, _)
\* the elements of s whose queue is (keep = FALSE) or is not (keep = TRUE)
\* queueName, in order
FilterQueue(s, queueName, keep) ==
    IF s = <<>> THEN <<>>
    ELSE LET rest == FilterQueue(Tail(s), queueName, keep)
         IN  IF (GetQueue(Head(s)) # queueName) = keep
             THEN <<Head(s)>> \o rest
             ELSE rest

VARIABLES
    exType,     \* ex.exType
    backing,    \* the array under ex.bindings
    blen,       \* len(ex.bindings)
    bindLock,   \* ex.bindLock: the handler holding it, or NoHandler
    pc,         \* per handler: "idle", "locked", "write", "scan", "done"
    op,         \* per handler: the method it is in or has returned from
    arg,        \* per handler: the method's argument
    idx,        \* per handler: the loop index
    view,       \* per handler: the slice header its range loop copied
    matched,    \* per handler: matchedQueues
    kept,       \* per handler: newBindings
    removed,    \* per handler: removedBindings, as returned
    got         \* per handler: the slice header GetBindings returned

exVars ==
    <<exType, backing, blen, bindLock, pc, op, arg, idx, view, matched, kept, removed, got>>

VARIABLES
    exchanges,  \* the virtual host's registry: exchange name -> *Exchange
    chPc,       \* per channel: "idle", "declare", "append", "done"
    chMethod,   \* per channel: the method exchangeDeclare was called with
    chNew,      \* per channel: newExchange
    chLooked,   \* per channel: whether this call has looked the registry up
    chErr,      \* per channel: the *amqp.Error returned
    chSent      \* per channel: whether this call sent ExchangeDeclareOk

declVars == <<exchanges, chPc, chMethod, chNew, chLooked, chErr, chSent>>

VARIABLES
    db,         \* the store's items: key -> value, the open transaction's writes included
    mu,         \* db.mu, write side: the client inside db.Update, or NoClient
    readers,    \* db.mu, read side: the clients inside db.View
    rollback,   \* the open transaction's rollback items: the items when it began
    dirty,      \* whether the open transaction has items to write at commit
    stPc,       \* per client: "idle", "batch", "get", "iter", "done"
    stBatch,    \* per client: the batch ProcessBatch was called with
    stPos,      \* per client: the operations done, or the keys passed by Ascend
    stKey,      \* per client: the key Get was called with
    stErr,      \* per client: the error the call returned
    stValue,    \* per client: the value Get returned
    stSeen,     \* per client: the pairs Iterate's visitor was given, in order
    stStop      \* per client: whether Iterate's visitor has what it wants

storeVars ==
    <<db, mu, readers, rollback, dirty, stPc, stBatch, stPos, stKey, stErr, stValue, stSeen,
      stStop>>

VARIABLES
    rtType,     \* a routed exchange's exType
    rtBindings, \* its bindings
    rtMessage,  \* the message GetMatchedQueues is called with
    rtResult,   \* what GetMatchedQueues returned
    rtPc        \* "idle", "call", "done"

routeVars == <<rtType, rtBindings, rtMessage, rtResult, rtPc>>

VARIABLES
    msEx,       \* the exchange Marshal is called on
    msData,     \* the bytes Marshal returned
    msOut,      \* the exchange Unmarshal was called on, after the call
    msPc        \* "idle", "marshal", "unmarshal", "done"

marshalVars == <<msEx, msData, msOut, msPc>>

VARIABLES
    eqA,        \* the exchange EqualWithErr is called on
    eqB,        \* the exchange it is given
    eqErr,      \* the error of eqA.EqualWithErr(eqB)
    eqErrBack,  \* the error of eqB.EqualWithErr(eqA)
    eqPc        \* "idle", "call", "back", "done"

equalVars == <<eqA, eqB, eqErr, eqErrBack, eqPc>>

VARIABLES
    closed,     \* whether db.Close has closed the database
    gcPc,       \* runStorageGC: "wait" at the select, "shrink" before db.Shrink
    tick        \* whether the channel of time.Tick holds a tick

gcVars == <<closed, gcPc, tick>>

vars == <<exVars, declVars, storeVars, routeVars, marshalVars, equalVars, gcVars>>

\* what the methods of the Exchange leave alone, what exchangeDeclare does,
\* and what the storage does
NotExchange == <<declVars, storeVars, routeVars, marshalVars, equalVars, gcVars>>
NotDecl == <<exVars, storeVars, routeVars, marshalVars, equalVars, gcVars>>
NotStore == <<exVars, declVars, routeVars, marshalVars, equalVars, gcVars>>
NotRoute == <<exVars, declVars, storeVars, marshalVars, equalVars, gcVars>>
NotMarshal == <<exVars, declVars, storeVars, routeVars, equalVars, gcVars>>
NotEqual == <<exVars, declVars, storeVars, routeVars, marshalVars, gcVars>>
NotStorage == <<exVars, declVars, routeVars, marshalVars, equalVars>>

\* ex.bindings
Bindings == SubSeq(backing, 1, blen)

\* The slice header a range loop copied: its len, and the array it points to.
\* shared = TRUE while that array is the one ex.bindings points to (its
\* content is `backing`, and the loop is at slot idx); once ex.bindings points
\* to a fresh array nothing writes the old one any more, and arr holds the
\* slots of it the loop has yet to visit.
NoView == [shared |-> FALSE, len |-> 0, arr |-> <<>>]

\* the slots the loop of handler h has yet to visit
ToVisit(h) ==
    IF view[h].shared THEN SubSeq(backing, idx[h] + 1, view[h].len) ELSE view[h].arr

\* ex.bindings is pointed to a fresh array: a header copied earlier keeps the old one
Detached(h) ==
    IF view[h].shared THEN [shared |-> FALSE, len |-> 0, arr |-> ToVisit(h)] ELSE view[h]

\* ex.bindings is pointed to a fresh array: a slice GetBindings returned
\* keeps the old one, with the content it has now
Kept(h) ==
    IF got[h].shared
    THEN [shared |-> FALSE, len |-> got[h].len, arr |-> SubSeq(backing, 1, got[h].len)]
    ELSE got[h]

ExInit ==
    /\ exType \in ExTypeBytes
    /\ backing = <<>>
    /\ blen = 0
    /\ bindLock = NoHandler
    /\ pc = [h \in Handlers |-> "idle"]
    /\ op = [h \in Handlers |-> "none"]
    /\ arg = [h \in Handlers |-> NoBinding]
    /\ idx = [h \in Handlers |-> 0]
    /\ view = [h \in Handlers |-> NoView]
    /\ matched = [h \in Handlers |-> {}]
    /\ kept = [h \in Handlers |-> <<>>]
    /\ removed = [h \in Handlers |-> <<>>]
    /\ got = [h \in Handlers |-> NoView]

Returned(h) == pc[h] \in {"idle", "done"}

\* a call begins: the previous call's locals are gone
Enter(h, method, a, at) ==
    /\ Returned(h)
    /\ pc' = [pc EXCEPT ![h] = at]
    /\ op' = [op EXCEPT ![h] = method]
    /\ arg' = [arg EXCEPT ![h] = a]
    /\ idx' = [idx EXCEPT ![h] = 0]
    /\ matched' = [matched EXCEPT ![h] = {}]
    /\ kept' = [kept EXCEPT ![h] = <<>>]
    /\ removed' = [removed EXCEPT ![h] = <<>>]

\* ex.bindLock.Lock() of a mutating method
LockBindings(h, method, a) ==
    /\ bindLock = NoHandler
    /\ bindLock' = h
    /\ Enter(h, method, a, "locked")
    /\ view' = [view EXCEPT ![h] = NoView]
    /\ UNCHANGED <<exType, backing, blen>>
    /\ UNCHANGED got
    /\ UNCHANGED NotExchange

\* return, and the deferred ex.bindLock.Unlock()
UnlockBindings(h) ==
    /\ pc' = [pc EXCEPT ![h] = "done"]
    /\ arg' = [arg EXCEPT ![h] = NoBinding]
    /\ bindLock' = NoHandler

AppendBindingLock(h, newBind) ==
    /\ blen < MaxBindings
    /\ LockBindings(h, "AppendBinding", newBind)

\* the loop of AppendBinding, finding no binding equal whatever the set holds
AppendBindingLoopFindsNone(h) ==
    /\ pc[h] = "locked" /\ op[h] = "AppendBinding"
    /\ idx' = [idx EXCEPT ![h] = 0]
    /\ pc' = [pc EXCEPT ![h] = "write"]
    /\ UNCHANGED <<arg, bindLock>>
    /\ UNCHANGED <<exType, backing, blen, op, view, matched, kept, removed>>
    /\ UNCHANGED got
    /\ UNCHANGED NotExchange

\* the loop of AppendBinding: it returns at the first binding equal to
\* newBind (idx is its place), and falls through to the append if none is
AppendBindingLoop(h) ==
    LET i == FirstEqual(Bindings, arg[h]) IN
    /\ pc[h] = "locked" /\ op[h] = "AppendBinding"
    /\ idx' = [idx EXCEPT ![h] = i]
    /\ IF i # 0
       THEN UnlockBindings(h)
       ELSE /\ pc' = [pc EXCEPT ![h] = "write"]
            /\ UNCHANGED <<arg, bindLock>>
    /\ UNCHANGED <<exType, backing, blen, op, view, matched, kept, removed>>
    /\ UNCHANGED got
    /\ UNCHANGED NotExchange

\* ex.bindings = append(ex.bindings, newBind): the next slot of the array,
\* or a fresh array of twice the cap when the array is full
AppendBinding(h) ==
    /\ pc[h] = "write" /\ op[h] = "AppendBinding"
    /\ IF blen < Len(backing)
       THEN /\ backing' = [backing EXCEPT ![blen + 1] = arg[h]]
            /\ UNCHANGED <<view, got>>
       ELSE /\ backing' = ArrayOf(Bindings \o <<arg[h]>>, GrowCap(Len(backing)))
            /\ view' = [g \in Handlers |-> Detached(g)]
            /\ got' = [g \in Handlers |-> Kept(g)]
    /\ blen' = blen + 1
    /\ UnlockBindings(h)
    /\ UNCHANGED <<exType, op, idx, matched, kept, removed>>
    /\ UNCHANGED NotExchange

RemoveBindingLock(h, rmBind) == LockBindings(h, "RemoveBinding", rmBind)

\* the loop of RemoveBinding up to the first binding equal to rmBind (idx is
\* its place); it returns when there is none
RemoveBindingLoop(h) ==
    LET i == FirstEqual(Bindings, arg[h]) IN
    /\ pc[h] = "locked" /\ op[h] = "RemoveBinding"
    /\ idx' = [idx EXCEPT ![h] = i]
    /\ IF i = 0
       THEN UnlockBindings(h)
       ELSE /\ pc' = [pc EXCEPT ![h] = "write"]
            /\ UNCHANGED <<arg, bindLock>>
    /\ UNCHANGED <<exType, backing, blen, op, view, matched, kept, removed>>
    /\ UNCHANGED got
    /\ UNCHANGED NotExchange

\* ex.bindings = append(ex.bindings[:i], ex.bindings[i+1:]...) moves the
\* tail down one slot in the same array; the slot past the new len keeps its
\* old content
RemoveBinding(h) ==
    /\ pc[h] = "write" /\ op[h] = "RemoveBinding"
    /\ backing' = [k \in 1 .. Len(backing) |->
                     IF k >= idx[h] /\ k < blen THEN backing[k + 1] ELSE backing[k]]
    /\ blen' = blen - 1
    /\ UnlockBindings(h)
    /\ UNCHANGED <<exType, op, idx, view, matched, kept, removed>>
    /\ UNCHANGED got
    /\ UNCHANGED NotExchange

RemoveQueueBindingsLock(h, queueName) ==
    LockBindings(h, "RemoveQueueBindings",
                 [exchange |-> "", routingKey |-> <<>>, queue |-> queueName])

\* the loop of RemoveQueueBindings: every binding goes to newBindings or to
\* removedBindings
RemoveQueueBindingsLoop(h) ==
    /\ pc[h] = "locked" /\ op[h] = "RemoveQueueBindings"
    /\ kept' = [kept EXCEPT ![h] = FilterQueue(Bindings, arg[h].queue, TRUE)]
    /\ removed' = [removed EXCEPT ![h] = FilterQueue(Bindings, arg[h].queue, FALSE)]
    /\ pc' = [pc EXCEPT ![h] = "write"]
    /\ UNCHANGED <<exType, backing, blen, bindLock, op, arg, idx, view, matched>>
    /\ UNCHANGED got
    /\ UNCHANGED NotExchange

\* ex.bindings = newBindings; return removedBindings
RemoveQueueBindings(h) ==
    /\ pc[h] = "write" /\ op[h] = "RemoveQueueBindings"
    /\ backing' = ArrayOf(kept[h], CapAfterAppends(Len(kept[h])))
    /\ blen' = Len(kept[h])
    /\ view' = [g \in Handlers |-> Detached(g)]
    /\ got' = [g \in Handlers |-> Kept(g)]
    /\ kept' = [kept EXCEPT ![h] = <<>>]
    /\ UnlockBindings(h)
    /\ UNCHANGED <<exType, op, idx, matched, removed>>
    /\ UNCHANGED NotExchange

\* GetMatchedQueues: make the map, switch on ex.exType; each case's range
\* loop copies the slice header ex.bindings once.  No lock is taken.  An
\* exType with no case returns the empty map at once.
GetMatchedQueuesEnter(h, message) ==
    LET routed == exType \in {ExTypeDirect, ExTypeFanout, ExTypeTopic} IN
    /\ Enter(h, "GetMatchedQueues",
             IF routed
             THEN [exchange |-> message.Exchange, routingKey |-> message.RoutingKey,
                   queue |-> ""]
             ELSE NoBinding,
             IF routed THEN "scan" ELSE "done")
    /\ view' = [view EXCEPT ![h] =
                  IF routed THEN [shared |-> TRUE, len |-> blen, arr |-> <<>>] ELSE NoView]
    /\ UNCHANGED <<exType, backing, blen, bindLock>>
    /\ UNCHANGED got
    /\ UNCHANGED NotExchange

\* the switch with the fanout case matching as the direct case does
BindMatchesFanoutByKey(t, bind, exchange, routingKey) ==
    IF t = ExTypeDirect \/ t = ExTypeFanout THEN MatchDirect(bind, exchange, routingKey)
    ELSE IF t = ExTypeTopic THEN MatchTopic(bind, exchange, routingKey)
    ELSE FALSE

\* the switch with a default case that matches as the fanout case does
BindMatchesDefaultFanout(t, bind, exchange, routingKey) ==
    IF t = ExTypeDirect THEN MatchDirect(bind, exchange, routingKey)
    ELSE IF t = ExTypeTopic THEN MatchTopic(bind, exchange, routingKey)
    ELSE MatchFanout(bind, exchange)

\* whether the case of the switch for exType t takes bind for the message
BindMatches(t, bind, exchange, routingKey) ==
    IF t = ExTypeDirect THEN MatchDirect(bind, exchange, routingKey)
    ELSE IF t = ExTypeFanout THEN MatchFanout(bind, exchange)
    ELSE IF t = ExTypeTopic THEN MatchTopic(bind, exchange, routingKey)
    ELSE FALSE

\* the method returns matchedQueues; its other locals are gone
GetMatchedQueuesReturn(h) ==
    /\ pc' = [pc EXCEPT ![h] = "done"]
    /\ idx' = [idx EXCEPT ![h] = 0]
    /\ arg' = [arg EXCEPT ![h] = NoBinding]
    /\ view' = [view EXCEPT ![h] = NoView]

\* the range loop with the direct case's return left out
GetMatchedQueuesStepNoReturn(h) ==
    /\ pc[h] = "scan"
    /\ IF ToVisit(h) = <<>>
       THEN /\ GetMatchedQueuesReturn(h)
            /\ UNCHANGED matched
       ELSE LET bind == Head(ToVisit(h))
                \* the loop moves to the next slot
                Advance == IF view[h].shared
                           THEN /\ idx' = [idx EXCEPT ![h] = @ + 1]
                                /\ UNCHANGED view
                           ELSE /\ view' = [view EXCEPT ![h].arr = Tail(@)]
                                /\ UNCHANGED idx
            IN
            IF BindMatches(exType, bind, arg[h].exchange, arg[h].routingKey)
            THEN /\ matched' = [matched EXCEPT ![h] = @ \cup {GetQueue(bind)}]
                 /\ Advance /\ UNCHANGED <<pc, arg>>
            ELSE Advance /\ UNCHANGED <<pc, arg, matched>>
    /\ UNCHANGED <<exType, backing, blen, bindLock, op, kept, removed>>
    /\ UNCHANGED got
    /\ UNCHANGED NotExchange

\* one iteration of the range loop (or its end)
GetMatchedQueuesStep(h) ==
    /\ pc[h] = "scan"
    /\ IF ToVisit(h) = <<>>
       THEN /\ GetMatchedQueuesReturn(h)
            /\ UNCHANGED matched
       ELSE LET bind == Head(ToVisit(h))
                \* the loop moves to the next slot
                Advance == IF view[h].shared
                           THEN /\ idx' = [idx EXCEPT ![h] = @ + 1]
                                /\ UNCHANGED view
                           ELSE /\ view' = [view EXCEPT ![h].arr = Tail(@)]
                                /\ UNCHANGED idx
            IN
            IF BindMatches(exType, bind, arg[h].exchange, arg[h].routingKey)
            THEN /\ matched' = [matched EXCEPT ![h] = @ \cup {GetQueue(bind)}]
                 /\ IF exType = ExTypeDirect
                    THEN GetMatchedQueuesReturn(h)
                    ELSE Advance /\ UNCHANGED <<pc, arg>>
            ELSE Advance /\ UNCHANGED <<pc, arg, matched>>
    /\ UNCHANGED <<exType, backing, blen, bindLock, op, kept, removed>>
    /\ UNCHANGED got
    /\ UNCHANGED NotExchange

\* GetBindings: Lock, return ex.bindings (the slice header: the array
\* ex.bindings points to, and its len), and the deferred Unlock
GetBindings(h) ==
    /\ bindLock = NoHandler
    /\ Enter(h, "GetBindings", NoBinding, "done")
    /\ view' = [view EXCEPT ![h] = NoView]
    /\ got' = [got EXCEPT ![h] = [shared |-> TRUE, len |-> blen, arr |-> <<>>]]
    /\ UNCHANGED <<exType, backing, blen, bindLock>>
    /\ UNCHANGED NotExchange

ExStep(h) ==
    \/ \E b \in BindingUniverse : AppendBindingLock(h, b)
    \/ AppendBindingLoop(h)
    \/ AppendBinding(h)
    \/ \E b \in BindingUniverse : RemoveBindingLock(h, b)
    \/ RemoveBindingLoop(h)
    \/ RemoveBinding(h)
    \/ \E q \in QueueNames : RemoveQueueBindingsLock(h, q)
    \/ RemoveQueueBindingsLoop(h)
    \/ RemoveQueueBindings(h)
    \/ \E m \in Messages : GetMatchedQueuesEnter(h, m)
    \/ GetMatchedQueuesStep(h)

(***************************************************************************)
(* Channel.exchangeDeclare and the registry of the virtual host.           *)
(***************************************************************************)
Channels == {"c1", "c2"}

\* exchange names are strings: sequences of characters
ReservedPrefix == <<"a", "m", "q", ".">>
SystemExchangeName == <<"a", "m", "q", ".", "d">>
DeclNames == { <<>>, SystemExchangeName, <<"a", "m", "q", ".", "x">>, <<"e">> }
TypeAliases == {"direct", "fanout", "bogus"}
\* the (durable, autoDelete, internal) of the methods received
FlagInputs ==
    { <<FALSE, FALSE, FALSE>>, <<TRUE, FALSE, FALSE>>,
      <<FALSE, TRUE, FALSE>>, <<FALSE, FALSE, TRUE>> }

\* the amqp.ExchangeDeclare methods received: every name, type, Passive and
\* NoWait; the flags vary on the methods that can reach NewExchange
Methods ==
    { m \in [Exchange : DeclNames, Type : TypeAliases, Passive : BOOLEAN,
             Durable : BOOLEAN, AutoDelete : BOOLEAN, Internal : BOOLEAN,
             NoWait : BOOLEAN] :
        /\ <<m.Durable, m.AutoDelete, m.Internal>> \in FlagInputs
        /\ (m.Passive \/ m.Type = "bogus") => ~(m.Durable \/ m.AutoDelete \/ m.Internal) }

NoMethod ==
    [Exchange |-> <<>>, Type |-> "", Passive |-> FALSE, Durable |-> FALSE,
     AutoDelete |-> FALSE, Internal |-> FALSE, NoWait |-> FALSE]

NoError == [code |-> "nil", text |-> <<>>]
AmqpError(code, text) == [code |-> code, text |-> text]

\* strings.HasPrefix with the two strings compared whole
HasPrefixWhole(str, prefix) == str = prefix

\* strings.HasPrefix
HasPrefix(str, prefix) ==
    Len(str) >= Len(prefix) /\ SubSeq(str, 1, Len(prefix)) = prefix

exchangeTypeIDAliasMap ==
    (ExTypeDirect :> "direct") @@ (ExTypeFanout :> "fanout")
        @@ (ExTypeTopic :> "topic") @@ (ExTypeHeaders :> "headers")

exchangeTypeAliasIDMap ==
    ("direct" :> ExTypeDirect) @@ ("fanout" :> ExTypeFanout)
        @@ ("topic" :> ExTypeTopic) @@ ("headers" :> ExTypeHeaders)

\* (alias, err): the alias of an exchange type id
GetExchangeTypeAlias(id) ==
    IF id \in DOMAIN exchangeTypeIDAliasMap
    THEN [alias |-> exchangeTypeIDAliasMap[id], err |-> NoError]
    ELSE [alias |-> "", err |-> AmqpError("error", <<"undefined exchange type", id>>)]

\* GetExchangeTypeID answering id 0 and no error for an alias it does not know
GetExchangeTypeIDNoError(alias) ==
    IF alias \in DOMAIN exchangeTypeAliasIDMap
    THEN [id |-> exchangeTypeAliasIDMap[alias], err |-> NoError]
    ELSE [id |-> 0, err |-> NoError]

\* (id, err): the exchange type id of an alias
GetExchangeTypeID(alias) ==
    IF alias \in DOMAIN exchangeTypeAliasIDMap
    THEN [id |-> exchangeTypeAliasIDMap[alias], err |-> NoError]
    ELSE [id |-> 0, err |-> AmqpError("error", <<"undefined exchange alias", alias>>)]

NoExchange ==
    [Name |-> <<>>, exType |-> 0, durable |-> FALSE, autoDelete |-> FALSE,
     internal |-> FALSE, system |-> FALSE, nil |-> TRUE]

NewExchange(name, t, durable, autoDelete, internal, system) ==
    [Name |-> name, exType |-> t, durable |-> durable, autoDelete |-> autoDelete,
     internal |-> internal, system |-> system, nil |-> FALSE]

\* the error EqualWithErr formats: the argument's name, the exchange's name,
\* the value received and the current one
Inequivalent(argName, name, received, current) ==
    AmqpError("error", <<argName, name, received, current>>)

\* EqualWithErr comparing durable before the type
EqualWithErrDurableFirst(ex, exB) ==
    IF ex.durable # exB.durable
    THEN Inequivalent("durable", ex.Name, exB.durable, ex.durable)
    ELSE IF ex.exType # exB.exType
    THEN Inequivalent("type", ex.Name, GetExchangeTypeAlias(exB.exType).alias,
                      GetExchangeTypeAlias(ex.exType).alias)
    ELSE IF ex.autoDelete # exB.autoDelete
    THEN Inequivalent("autoDelete", ex.Name, exB.autoDelete, ex.autoDelete)
    ELSE IF ex.internal # exB.internal
    THEN Inequivalent("internal", ex.Name, exB.internal, ex.internal)
    ELSE NoError

\* EqualWithErr with the comparison of autoDelete left out
EqualWithErrNoAutoDelete(ex, exB) ==
    IF ex.exType # exB.exType
    THEN Inequivalent("type", ex.Name, GetExchangeTypeAlias(exB.exType).alias,
                      GetExchangeTypeAlias(ex.exType).alias)
    ELSE IF ex.durable # exB.durable
    THEN Inequivalent("durable", ex.Name, exB.durable, ex.durable)
    ELSE IF ex.internal # exB.internal
    THEN Inequivalent("internal", ex.Name, exB.internal, ex.internal)
    ELSE NoError

EqualWithErr(ex, exB) ==
    IF ex.exType # exB.exType
    THEN Inequivalent("type", ex.Name, GetExchangeTypeAlias(exB.exType).alias,
                      GetExchangeTypeAlias(ex.exType).alias)
    ELSE IF ex.durable # exB.durable
    THEN Inequivalent("durable", ex.Name, exB.durable, ex.durable)
    ELSE IF ex.autoDelete # exB.autoDelete
    THEN Inequivalent("autoDelete", ex.Name, exB.autoDelete, ex.autoDelete)
    ELSE IF ex.internal # exB.internal
    THEN Inequivalent("internal", ex.Name, exB.internal, ex.internal)
    ELSE NoError

\* VirtualHost.GetExchange: nil for a name that is not registered
GetExchange(name) ==
    IF name \in DOMAIN exchanges THEN exchanges[name] ELSE NoExchange

\* VirtualHost.AppendExchange: the registry maps the exchange's name to it
AppendExchange(ex) ==
    exchanges' = [n \in DOMAIN exchanges \cup {ex.Name} |->
                    IF n = ex.Name THEN ex ELSE exchanges[n]]

\* what a call has done when it returns, or where it stands: the error
\* returned, whether ExchangeDeclareOk was sent, whether GetExchange was
\* called, and the exchange still to register (next = "append")
Outcome(next, err, sent, looked, new) ==
    [next |-> next, err |-> err, sent |-> sent, looked |-> looked, new |-> new]

\* the passive branch without its NoWait test
PassiveDeclareAlwaysAnswers(method, existingExchange) ==
    IF existingExchange = NoExchange
    THEN Outcome("done", AmqpError("NotFound", method.Exchange), FALSE, TRUE, NoExchange)
    ELSE Outcome("done", NoError, TRUE, TRUE, NoExchange)

\* if method.Passive { ... }
PassiveDeclare(method, existingExchange) ==
    IF method.NoWait
    THEN Outcome("done", NoError, FALSE, TRUE, NoExchange)
    ELSE IF existingExchange = NoExchange
    THEN Outcome("done", AmqpError("NotFound", method.Exchange), FALSE, TRUE, NoExchange)
    ELSE Outcome("done", NoError, TRUE, TRUE, NoExchange)

\* exchangeDeclare up to its return or its call of AppendExchange
DeclareOutcome(method, existingExchange) ==
    LET t == GetExchangeTypeID(method.Type) IN
    IF t.err # NoError
    THEN Outcome("done", AmqpError("NotImplemented", t.err.text), FALSE, FALSE, NoExchange)
    ELSE IF method.Exchange = <<>>
    THEN Outcome("done", AmqpError("CommandInvalid", <<>>), FALSE, FALSE, NoExchange)
    ELSE IF method.Passive
    THEN PassiveDeclare(method, existingExchange)
    ELSE IF HasPrefix(method.Exchange, ReservedPrefix)
    THEN Outcome("done", AmqpError("AccessRefused", method.Exchange), FALSE, TRUE, NoExchange)
    ELSE LET newExchange == NewExchange(method.Exchange, t.id, method.Durable,
                                        method.AutoDelete, method.Internal, FALSE)
         IN  IF existingExchange # NoExchange
             THEN LET err == EqualWithErr(existingExchange, newExchange) IN
                  IF err # NoError
                  THEN Outcome("done", AmqpError("PreconditionFailed", err.text),
                               FALSE, TRUE, NoExchange)
                  ELSE Outcome("done", NoError, TRUE, TRUE, newExchange)
             ELSE Outcome("append", NoError, FALSE, TRUE, newExchange)

\* the registry when the broker accepts connections: the system exchange
DeclInit ==
    /\ exchanges = (SystemExchangeName :>
                      NewExchange(SystemExchangeName, ExTypeDirect, TRUE, FALSE, FALSE, TRUE))
    /\ chPc = [c \in Channels |-> "idle"]
    /\ chMethod = [c \in Channels |-> NoMethod]
    /\ chNew = [c \in Channels |-> NoExchange]
    /\ chLooked = [c \in Channels |-> FALSE]
    /\ chErr = [c \in Channels |-> NoError]
    /\ chSent = [c \in Channels |-> FALSE]

\* exchangeRoute: an amqp.ExchangeDeclare goes to exchangeDeclare
ExchangeRoute(c, method) ==
    /\ chPc[c] \in {"idle", "done"}
    /\ chPc' = [chPc EXCEPT ![c] = "declare"]
    /\ chMethod' = [chMethod EXCEPT ![c] = method]
    /\ chNew' = [chNew EXCEPT ![c] = NoExchange]
    /\ chLooked' = [chLooked EXCEPT ![c] = FALSE]
    /\ chErr' = [chErr EXCEPT ![c] = NoError]
    /\ chSent' = [chSent EXCEPT ![c] = FALSE]
    /\ UNCHANGED exchanges
    /\ UNCHANGED NotDecl

\* exchangeDeclare from its entry to its return, or to the point where it
\* has found the name free and is about to call AppendExchange
ExchangeDeclare(c) ==
    LET out == DeclareOutcome(chMethod[c], GetExchange(chMethod[c].Exchange)) IN
    /\ chPc[c] = "declare"
    /\ chPc' = [chPc EXCEPT ![c] = out.next]
    /\ chMethod' = [chMethod EXCEPT ![c] = NoMethod]
    /\ chNew' = [chNew EXCEPT ![c] = out.new]
    /\ chLooked' = [chLooked EXCEPT ![c] = out.looked]
    /\ chErr' = [chErr EXCEPT ![c] = out.err]
    /\ chSent' = [chSent EXCEPT ![c] = out.sent]
    /\ UNCHANGED exchanges
    /\ UNCHANGED NotDecl

\* AppendExchange(newExchange); SendMethod(ExchangeDeclareOk); return nil
ExchangeDeclareAppend(c) ==
    /\ chPc[c] = "append"
    /\ AppendExchange(chNew[c])
    /\ chSent' = [chSent EXCEPT ![c] = TRUE]
    /\ chPc' = [chPc EXCEPT ![c] = "done"]
    /\ UNCHANGED <<chMethod, chNew, chLooked, chErr>>
    /\ UNCHANGED NotDecl

DeclNext ==
    \E c \in Channels :
        \/ \E method \in Methods : ExchangeRoute(c, method)
        \/ ExchangeDeclare(c)
        \/ ExchangeDeclareAppend(c)

(***************************************************************************)
(* storage: BuntDB, the wrapper of a buntdb database.  db.Update runs its  *)
(* function in a writable transaction, exclusive of every other            *)
(* transaction; it rolls the transaction back when the function returns an *)
(* error and commits it otherwise.  db.View runs its function in a         *)
(* read-only transaction, shared with other readers.                       *)
(***************************************************************************)
\* ProcessBatch is called with at most this many operations.
MaxBatch == 2

Clients == {"w1", "w2"}
NoClient == "none"

\* the keys, in ascending order
KeyOrder == <<"k1", "k2">>
Keys == {KeyOrder[i] : i \in DOMAIN KeyOrder}

\* []byte values; a nil slice is not an empty one
Values == {<<>>, <<1>>}
NilSlice == [isNil |-> TRUE, bytes |-> <<>>]
Bytes(b) == [isNil |-> FALSE, bytes |-> b]

\* interfaces.Operation
OpSet == "set"
OpDel == "del"
Operations ==
    {[Op |-> OpSet, Key |-> k, Value |-> v] : k \in Keys, v \in Values}
        \cup {[Op |-> OpDel, Key |-> k, Value |-> <<>>] : k \in Keys}
Batches == UNION {[1 .. n -> Operations] : n \in 0 .. MaxBatch}

EmptyDb == [k \in {} |-> <<>>]

\* tx.Set: inserts or replaces the item; in a writable transaction it succeeds
TxSet(d, key, value) ==
    [db  |-> [k \in DOMAIN d \cup {key} |-> IF k = key THEN value ELSE d[k]],
     err |-> "nil"]

\* tx.Delete: removes the item; ErrNotFound when there is none
TxDelete(d, key) ==
    IF key \in DOMAIN d
    THEN [db |-> [k \in DOMAIN d \ {key} |-> d[k]], err |-> "nil"]
    ELSE [db |-> d, err |-> "ErrNotFound"]

\* tx.Get
TxGet(d, key) ==
    IF key \in DOMAIN d
    THEN [data |-> d[key], err |-> "nil"]
    ELSE [data |-> <<>>, err |-> "ErrNotFound"]

\* db.Update and db.View wait for db.mu
CanUpdate == mu = NoClient /\ readers = {}
CanView == mu = NoClient

\* tx.Commit writes the transaction's items to the file, if it has any; when
\* the write fails it rolls back and returns the error
CommitOutcomes(hasItems) == IF hasItems THEN {"nil", "ErrWrite"} ELSE {"nil"}

StoreInit ==
    /\ db = EmptyDb
    /\ mu = NoClient
    /\ readers = {}
    /\ rollback = EmptyDb
    /\ dirty = FALSE
    /\ stPc = [c \in Clients |-> "idle"]
    /\ stBatch = [c \in Clients |-> <<>>]
    /\ stPos = [c \in Clients |-> 0]
    /\ stKey = [c \in Clients |-> ""]
    /\ stErr = [c \in Clients |-> "nil"]
    /\ stValue = [c \in Clients |-> NilSlice]
    /\ stSeen = [c \in Clients |-> <<>>]
    /\ stStop = [c \in Clients |-> FALSE]

\* NewBuntDB has started runStorageGC, once, and the timer
GcInit ==
    /\ closed = FALSE
    /\ gcPc = "wait"
    /\ tick = FALSE

\* client c is not inside a call
StoreIdle(c) == stPc[c] \in {"idle", "done"}

\* client c returns err (and value, from Get)
StoreReturn(c, err, value) ==
    /\ stPc' = [stPc EXCEPT ![c] = "done"]
    /\ stBatch' = [stBatch EXCEPT ![c] = <<>>]
    /\ stPos' = [stPos EXCEPT ![c] = 0]
    /\ stKey' = [stKey EXCEPT ![c] = ""]
    /\ stStop' = [stStop EXCEPT ![c] = FALSE]
    /\ stErr' = [stErr EXCEPT ![c] = err]
    /\ stValue' = [stValue EXCEPT ![c] = value]

\* ProcessBatch: db.Update begins the transaction
ProcessBatchBegin(c, batch) ==
    /\ StoreIdle(c)
    /\ CanUpdate
    /\ mu' = c
    /\ rollback' = db
    /\ dirty' = FALSE
    /\ stPc' = [stPc EXCEPT ![c] = "batch"]
    /\ stBatch' = [stBatch EXCEPT ![c] = batch]
    /\ stPos' = [stPos EXCEPT ![c] = 0]
    /\ stErr' = [stErr EXCEPT ![c] = "nil"]
    /\ stValue' = [stValue EXCEPT ![c] = NilSlice]
    /\ stSeen' = [stSeen EXCEPT ![c] = <<>>]
    /\ UNCHANGED <<db, readers, stKey, stStop>>
    /\ UNCHANGED NotStore

\* ProcessBatch: one operation of the loop; what tx.Set and tx.Delete return
\* is dropped
ProcessBatchOp(c) ==
    /\ stPc[c] = "batch"
    /\ stPos[c] < Len(stBatch[c])
    /\ LET o == stBatch[c][stPos[c] + 1]
           r == IF o.Op = OpSet THEN TxSet(db, o.Key, o.Value) ELSE TxDelete(db, o.Key)
       IN  /\ db' = r.db
           /\ dirty' = (dirty \/ r.err = "nil")
    /\ stPos' = [stPos EXCEPT ![c] = @ + 1]
    /\ UNCHANGED <<mu, readers, rollback, stPc, stBatch, stKey, stErr, stValue, stSeen, stStop>>
    /\ UNCHANGED NotStore

\* ProcessBatch: the function returns nil and db.Update commits
ProcessBatchCommit(c) ==
    /\ stPc[c] = "batch"
    /\ stPos[c] = Len(stBatch[c])
    /\ \E err \in CommitOutcomes(dirty) :
          /\ db' = IF err = "nil" THEN db ELSE rollback
          /\ StoreReturn(c, err, NilSlice)
    /\ mu' = NoClient
    /\ rollback' = EmptyDb
    /\ dirty' = FALSE
    /\ UNCHANGED <<readers, stSeen>>
    /\ UNCHANGED NotStore

\* the results of the call before are gone when a call begins
StoreCall(c) == StoreIdle(c) /\ stSeen' = [stSeen EXCEPT ![c] = <<>>]

\* db.Update on the items d with a function that does one operation and
\* returns its error, r being what the operation gave: the items afterwards
\* and the error returned
Update(d, r) ==
    IF r.err # "nil"
    THEN {[db |-> d, err |-> r.err]}
    ELSE {[db |-> IF err = "nil" THEN r.db ELSE d, err |-> err] :
             err \in CommitOutcomes(TRUE)}

\* Set: the function returns tx.Set's error
Set(c, key, value) ==
    /\ StoreCall(c)
    /\ CanUpdate
    /\ \E o \in Update(db, TxSet(db, key, value)) :
          /\ db' = o.db
          /\ StoreReturn(c, o.err, NilSlice)
    /\ UNCHANGED <<mu, readers, rollback, dirty>>
    /\ UNCHANGED NotStore

\* Del: the function returns tx.Delete's error
Del(c, key) ==
    /\ StoreCall(c)
    /\ CanUpdate
    /\ \E o \in Update(db, TxDelete(db, key)) :
          /\ db' = o.db
          /\ StoreReturn(c, o.err, NilSlice)
    /\ UNCHANGED <<mu, readers, rollback, dirty>>
    /\ UNCHANGED NotStore

\* Get: db.View begins the read-only transaction
GetBegin(c, key) ==
    /\ StoreCall(c)
    /\ CanView
    /\ readers' = readers \cup {c}
    /\ stPc' = [stPc EXCEPT ![c] = "get"]
    /\ stKey' = [stKey EXCEPT ![c] = key]
    /\ stErr' = [stErr EXCEPT ![c] = "nil"]
    /\ stValue' = [stValue EXCEPT ![c] = NilSlice]
    /\ UNCHANGED <<db, mu, rollback, dirty, stBatch, stPos, stStop>>
    /\ UNCHANGED NotStore

\* Get: the function's err is its own, and what db.View returns is dropped:
\* the err Get returns is never assigned
Get(c) ==
    /\ stPc[c] = "get"
    /\ LET r == TxGet(db, stKey[c])
       IN  StoreReturn(c, "nil", IF r.err # "nil" THEN NilSlice ELSE Bytes(r.data))
    /\ readers' = readers \ {c}
    /\ UNCHANGED <<db, mu, rollback, dirty, stSeen>>
    /\ UNCHANGED NotStore

\* Iterate: db.View begins the read-only transaction
IterateBegin(c) ==
    /\ StoreCall(c)
    /\ CanView
    /\ readers' = readers \cup {c}
    /\ stPc' = [stPc EXCEPT ![c] = "iter"]
    /\ stPos' = [stPos EXCEPT ![c] = 0]
    /\ stErr' = [stErr EXCEPT ![c] = "nil"]
    /\ stValue' = [stValue EXCEPT ![c] = NilSlice]
    /\ UNCHANGED <<db, mu, rollback, dirty, stBatch, stKey, stStop>>
    /\ UNCHANGED NotStore

\* the places in KeyOrder, after the one Ascend is at, of the keys the store has
KeysAhead(c) == {i \in DOMAIN KeyOrder : i > stPos[c] /\ KeyOrder[i] \in DOMAIN db}

\* Iterate: tx.Ascend gives the next item to the function, which calls the
\* visitor fn and returns true.  fn has no result: a visitor that has what it
\* wants (stop) has no way to say so.
IterateVisit(c) ==
    /\ stPc[c] = "iter"
    /\ KeysAhead(c) # {}
    /\ LET i == CHOOSE j \in KeysAhead(c) : \A k \in KeysAhead(c) : j <= k
       IN  /\ stSeen' = [stSeen EXCEPT ![c] = Append(@, <<KeyOrder[i], db[KeyOrder[i]]>>)]
           /\ stPos' = [stPos EXCEPT ![c] = i]
    /\ \E stop \in BOOLEAN : stStop' = [stStop EXCEPT ![c] = @ \/ stop]
    /\ UNCHANGED <<db, mu, readers, rollback, dirty, stPc, stBatch, stKey, stErr, stValue>>
    /\ UNCHANGED NotStore

\* Iterate: tx.Ascend is past the last item; db.View ends the transaction
IterateReturn(c) ==
    /\ stPc[c] = "iter"
    /\ KeysAhead(c) = {}
    /\ readers' = readers \ {c}
    /\ StoreReturn(c, "nil", NilSlice)
    /\ UNCHANGED <<db, mu, rollback, dirty, stSeen>>
    /\ UNCHANGED NotStore

\* Close: db.Close waits for the transactions to end and closes the database
Close(c) ==
    /\ StoreCall(c)
    /\ CanUpdate
    /\ closed' = TRUE
    /\ StoreReturn(c, IF closed THEN "ErrDatabaseClosed" ELSE "nil", NilSlice)
    /\ UNCHANGED <<db, mu, readers, rollback, dirty, gcPc, tick>>
    /\ UNCHANGED NotStorage

\* the timer of time.Tick sends a tick; the channel holds one at most
TimerTick ==
    /\ ~tick
    /\ tick' = TRUE
    /\ UNCHANGED <<closed, gcPc>>
    /\ UNCHANGED <<storeVars, NotStorage>>

\* runStorageGC: the select receives a tick
GcReceive ==
    /\ gcPc = "wait"
    /\ tick
    /\ tick' = FALSE
    /\ gcPc' = "shrink"
    /\ UNCHANGED closed
    /\ UNCHANGED <<storeVars, NotStorage>>

\* runStorageGC: storage.db.Shrink(), which leaves the items as they are (on
\* a closed database it returns an error, which is dropped); then the loop
\* goes back to the select
GcShrink ==
    /\ gcPc = "shrink"
    /\ CanUpdate
    /\ gcPc' = "wait"
    /\ UNCHANGED <<closed, tick>>
    /\ UNCHANGED <<storeVars, NotStorage>>

\* the storage written to by its clients until one closes it, with the
\* compaction task running
GcNext ==
    \/ \E c \in Clients, k \in Keys, v \in Values : ~closed /\ Set(c, k, v)
    \/ \E c \in Clients, k \in Keys : ~closed /\ Del(c, k)
    \/ \E c \in Clients : Close(c)
    \/ TimerTick
    \/ GcReceive
    \/ GcShrink

StoreNext ==
    \E c \in Clients :
        \/ \E batch \in Batches : ProcessBatchBegin(c, batch)
        \/ ProcessBatchOp(c)
        \/ ProcessBatchCommit(c)
        \/ \E k \in Keys, v \in Values : Set(c, k, v)
        \/ \E k \in Keys : Del(c, k)
        \/ \E k \in Keys : GetBegin(c, k)
        \/ Get(c)
        \/ IterateBegin(c)
        \/ IterateVisit(c)
        \/ IterateReturn(c)

(***************************************************************************)
(* GetMatchedQueues as a function of the exchange's kind, its bindings and *)
(* the message, for one call that no other call overlaps.  The bindings    *)
(* here carry their arguments, and the messages their headers.             *)
(***************************************************************************)
\* GetMatchedQueues is called on at most this many bindings.
MaxRouted == 2

\* header fields, as (name, value) pairs
HeaderPairs == {<<"k", "1">>, <<"j", "2">>}

\* bindings of exchange "ex" with header arguments: x-match and the pairs
RoutedBindings ==
    { [exchange |-> "ex", routingKey |-> <<"a">>, queue |-> "q1",
       arguments |-> [xmatch |-> "all", pairs |-> HeaderPairs]],
      [exchange |-> "ex", routingKey |-> <<"b">>, queue |-> "q2",
       arguments |-> [xmatch |-> "any", pairs |-> HeaderPairs]],
      [exchange |-> "ex", routingKey |-> <<"a">>, queue |-> "q2",
       arguments |-> [xmatch |-> "all", pairs |-> {<<"k", "1">>}]] }

\* binding sets as AppendBinding builds them: no two bindings Equal
RoutedBindingSets ==
    {s \in UNION {[1 .. n -> RoutedBindings] : n \in 0 .. MaxRouted} :
        \A i, j \in DOMAIN s : i # j => ~Equal(s[i], s[j])}

RoutedMessages == [Exchange : {"ex"}, RoutingKey : MsgKeys, Headers : SUBSET HeaderPairs]

\* the map GetMatchedQueues makes, as the set of its keys
MadeMap(queues) == [isNil |-> FALSE, queues |-> queues]
NoMap == [isNil |-> TRUE, queues |-> {}]

\* the places of the bindings the case of the switch for exType t takes
MatchedPlaces(t, bindings, message) ==
    {i \in DOMAIN bindings :
        BindMatches(t, bindings[i], message.Exchange, message.RoutingKey)}

\* GetMatchedQueues: the direct case returns at the first binding it takes
GetMatchedQueues(t, bindings, message) ==
    LET places == MatchedPlaces(t, bindings, message)
        first == CHOOSE i \in places : \A j \in places : i <= j
    IN  MadeMap(IF t = ExTypeDirect /\ places # {}
                THEN {GetQueue(bindings[first])}
                ELSE {GetQueue(bindings[i]) : i \in places})

\* no call is made
RouteIdle ==
    /\ rtType = ExTypeDirect
    /\ rtBindings = <<>>
    /\ rtMessage = [Exchange |-> "", RoutingKey |-> <<>>, Headers |-> {}]
    /\ rtResult = NoMap
    /\ rtPc = "idle"

\* a call on any exchange and message
RouteInit ==
    /\ rtType \in ExTypeBytes
    /\ rtBindings \in RoutedBindingSets
    /\ rtMessage \in RoutedMessages
    /\ rtResult = NoMap
    /\ rtPc = "call"

Route ==
    /\ rtPc = "call"
    /\ rtResult' = GetMatchedQueues(rtType, rtBindings, rtMessage)
    /\ rtPc' = "done"
    /\ UNCHANGED <<rtType, rtBindings, rtMessage>>
    /\ UNCHANGED NotRoute

(***************************************************************************)
(* Marshal and Unmarshal: the record of an exchange in the storage.  A     *)
(* name here is the sequence of its bytes.                                 *)
(***************************************************************************)
\* Marshal is called on names of up to this many bytes.
MaxNameLen == 256

\* the values of a byte
ByteValues == 256

BytesOf(b, n) == [i \in 1 .. n |-> b]
MarshalNames ==
    {BytesOf(120, n) : n \in {0, 1, ByteValues - 1, MaxNameLen}} \cup {<<101, 120>>}

\* amqp.WriteOctet
WriteOctet(buf, b) == Append(buf, b)

\* amqp.WriteShortstr: the length as one byte, then the bytes
WriteShortstr(buf, str) == WriteOctet(buf, Len(str) % ByteValues) \o str

\* amqp.ReadOctet: (the byte, what is left to read, whether it failed)
ReadOctet(data) ==
    IF data = <<>>
    THEN [octet |-> 0, rest |-> <<>>, failed |-> TRUE]
    ELSE [octet |-> Head(data), rest |-> Tail(data), failed |-> FALSE]

\* amqp.ReadShortstr: the length byte, then that many bytes
ReadShortstr(data) ==
    LET n == ReadOctet(data) IN
    IF n.failed \/ Len(n.rest) < n.octet
    THEN [str |-> <<>>, rest |-> <<>>, failed |-> TRUE]
    ELSE [str |-> SubSeq(n.rest, 1, n.octet),
          rest |-> SubSeq(n.rest, n.octet + 1, Len(n.rest)),
          failed |-> FALSE]

\* ex.Marshal: the name and the exType
Marshal(ex) == WriteOctet(WriteShortstr(<<>>, ex.Name), ex.exType)

\* ex.Unmarshal with durable left as it is
UnmarshalKeepsDurable(ex, data) ==
    LET name == ReadShortstr(data)
        kind == ReadOctet(name.rest)
    IN  [ex EXCEPT !.Name = name.str, !.exType = kind.octet]

\* ex.Unmarshal: what the reads return in error is dropped
Unmarshal(ex, data) ==
    LET name == ReadShortstr(data)
        kind == ReadOctet(name.rest)
    IN  [ex EXCEPT !.Name = name.str, !.exType = kind.octet, !.durable = TRUE]

\* &Exchange{}
FreshExchange == [NoExchange EXCEPT !.nil = FALSE]

\* no call is made
MarshalIdle ==
    /\ msEx = NoExchange
    /\ msData = <<>>
    /\ msOut = NoExchange
    /\ msPc = "idle"

\* Marshal is about to be called on any exchange
MarshalInit ==
    /\ msEx \in {NewExchange(name, t, durable, autoDelete, internal, FALSE) :
                    name \in MarshalNames, t \in ExTypeBytes,
                    durable \in BOOLEAN, autoDelete \in BOOLEAN, internal \in BOOLEAN}
    /\ msData = <<>>
    /\ msOut = NoExchange
    /\ msPc = "marshal"

MarshalCall ==
    /\ msPc = "marshal"
    /\ msData' = Marshal(msEx)
    /\ msPc' = "unmarshal"
    /\ UNCHANGED <<msEx, msOut>>
    /\ UNCHANGED NotMarshal

UnmarshalCall ==
    /\ msPc = "unmarshal"
    /\ msOut' = Unmarshal(FreshExchange, msData)
    /\ msPc' = "done"
    /\ UNCHANGED <<msEx, msData>>
    /\ UNCHANGED NotMarshal

MarshalNext == MarshalCall \/ UnmarshalCall

(***************************************************************************)
(* EqualWithErr on two exchanges, called either way round.                 *)
(***************************************************************************)
\* the exchanges EqualWithErr is called on, and those it is given
EqualReceivers ==
    {NewExchange(<<"e">>, t, durable, autoDelete, internal, FALSE) :
        t \in ExTypeBytes, durable \in BOOLEAN, autoDelete \in BOOLEAN, internal \in BOOLEAN}
EqualArguments ==
    {NewExchange(name, t, durable, autoDelete, internal, system) :
        name \in {<<"e">>, <<"f">>}, t \in {ExTypeDirect, ExTypeHeaders, 5},
        durable \in BOOLEAN, autoDelete \in BOOLEAN, internal \in BOOLEAN,
        system \in BOOLEAN}

\* no call is made
EqualIdle ==
    /\ eqA = NoExchange
    /\ eqB = NoExchange
    /\ eqErr = NoError
    /\ eqErrBack = NoError
    /\ eqPc = "idle"

EqualInit ==
    /\ eqA \in EqualReceivers
    /\ eqB \in EqualArguments
    /\ eqErr = NoError
    /\ eqErrBack = NoError
    /\ eqPc = "call"

\* eqA.EqualWithErr(eqB)
EqualCall ==
    /\ eqPc = "call"
    /\ eqErr' = EqualWithErr(eqA, eqB)
    /\ eqPc' = "back"
    /\ UNCHANGED <<eqA, eqB, eqErrBack>>
    /\ UNCHANGED NotEqual

\* eqB.EqualWithErr(eqA)
EqualBackCall ==
    /\ eqPc = "back"
    /\ eqErrBack' = EqualWithErr(eqB, eqA)
    /\ eqPc' = "done"
    /\ UNCHANGED <<eqA, eqB, eqErr>>
    /\ UNCHANGED NotEqual

EqualNext == EqualCall \/ EqualBackCall

(***************************************************************************)
(* The specifications.                                                     *)
(***************************************************************************)
Init == ExInit /\ DeclInit /\ StoreInit /\ GcInit /\ EqualIdle /\ RouteIdle /\ MarshalIdle

\* the channels declare; no handler calls the Exchange
DeclStart == ExInit /\ exType = ExTypeDirect /\ DeclInit /\ StoreInit /\ GcInit /\ EqualIdle /\ RouteIdle /\ MarshalIdle

\* the clients call the storage; no handler calls the Exchange
StoreStart == ExInit /\ exType = ExTypeDirect /\ DeclInit /\ StoreInit /\ GcInit /\ EqualIdle /\ RouteIdle /\ MarshalIdle

\* the clients of the storage call it concurrently
StoreSpec == StoreStart /\ [][StoreNext]_vars

Next == \E h \in Handlers : ExStep(h)

\* the handlers of the connections call the Exchange's methods concurrently
Spec == Init /\ [][Next]_vars

\* concurrent handlers that only change the binding set
MutStep(h) ==
    \/ \E b \in BindingUniverse : AppendBindingLock(h, b)
    \/ AppendBindingLoop(h)
    \/ AppendBinding(h)
    \/ \E b \in BindingUniverse : RemoveBindingLock(h, b)
    \/ RemoveBindingLoop(h)
    \/ RemoveBinding(h)
    \/ \E q \in QueueNames : RemoveQueueBindingsLock(h, q)
    \/ RemoveQueueBindingsLoop(h)
    \/ RemoveQueueBindings(h)

MutNext == \E h \in Handlers : MutStep(h)

MutSpec == Init /\ [][MutNext]_vars

\* one call at a time: a handler moves only while every other has returned
Sequential(h) == \A g \in Handlers \ {h} : Returned(g)

SeqNext ==
    \E h \in Handlers :
        \/ Sequential(h) /\ \E b \in BindingUniverse : AppendBindingLock(h, b)
        \/ Sequential(h) /\ AppendBindingLoop(h)
        \/ Sequential(h) /\ AppendBinding(h)
        \/ Sequential(h) /\ \E b \in BindingUniverse : RemoveBindingLock(h, b)
        \/ Sequential(h) /\ RemoveBindingLoop(h)
        \/ Sequential(h) /\ RemoveBinding(h)
        \/ Sequential(h) /\ \E q \in QueueNames : RemoveQueueBindingsLock(h, q)
        \/ Sequential(h) /\ RemoveQueueBindingsLoop(h)
        \/ Sequential(h) /\ RemoveQueueBindings(h)
        \/ Sequential(h) /\ \E m \in Messages : GetMatchedQueuesEnter(h, m)
        \/ Sequential(h) /\ GetMatchedQueuesStep(h)

SeqSpec == Init /\ [][SeqNext]_vars

\* the bindings the handlers of SnapSpec pass in: one of each queue
SnapBindings == {b \in BindingUniverse : b.exchange = "ex" /\ b.routingKey = <<"a">>}

\* the mutators and GetBindings, run by concurrent handlers
SnapNext ==
    \E h \in Handlers :
        \/ \E b \in SnapBindings : AppendBindingLock(h, b)
        \/ AppendBindingLoop(h)
        \/ AppendBinding(h)
        \/ \E b \in SnapBindings : RemoveBindingLock(h, b)
        \/ RemoveBindingLoop(h)
        \/ RemoveBinding(h)
        \/ \E q \in QueueNames : RemoveQueueBindingsLock(h, q)
        \/ RemoveQueueBindingsLoop(h)
        \/ RemoveQueueBindings(h)
        \/ GetBindings(h)

SnapSpec == DeclStart /\ [][SnapNext]_vars

\* the channels of the connections run exchangeDeclare concurrently
DeclSpec == DeclStart /\ [][DeclNext]_vars

\* one call of GetMatchedQueues
RouteStart == ExInit /\ exType = ExTypeDirect /\ DeclInit /\ StoreInit /\ GcInit /\ EqualIdle /\ RouteInit /\ MarshalIdle

RouteSpec == RouteStart /\ [][Route]_vars

\* an exchange is marshalled and the record unmarshalled
MarshalStart ==
    ExInit /\ exType = ExTypeDirect /\ DeclInit /\ StoreInit /\ GcInit /\ EqualIdle /\ RouteIdle /\ MarshalInit

MarshalSpec == MarshalStart /\ [][MarshalNext]_vars

\* two exchanges are compared
EqualStart ==
    /\ ExInit /\ exType = ExTypeDirect /\ DeclInit /\ StoreInit /\ GcInit
    /\ EqualInit /\ RouteIdle /\ MarshalIdle

EqualSpec == EqualStart /\ [][EqualNext]_vars

\* the timer keeps ticking and the compaction task keeps being scheduled
GcSpec ==
    /\ StoreStart
    /\ [][GcNext]_vars
    /\ WF_vars(TimerTick)
    /\ WF_vars(GcReceive)
    /\ WF_vars(GcShrink)

(***************************************************************************)
(* Properties of the Exchange.                                             *)
(***************************************************************************)

\* C1: a GetMatchedQueues scan holds ex.bindLock from its start to its end,
\* so no scan is in progress while AppendBinding, RemoveBinding or
\* RemoveQueueBindings is inside its critical section.
ScanHoldsBindLock ==
    \A h \in Handlers :
        pc[h] = "scan" =>
            /\ bindLock = h
            /\ \A g \in Handlers \ {h} : pc[g] \notin {"locked", "write"}

\* C2: the binding set never holds two bindings that are Equal, and an
\* AppendBinding of a binding Equal to one in the set leaves the set (its
\* size, content and order) as it was.
NoEqualBindings ==
    \A i, j \in 1 .. blen : i # j => ~Equal(backing[i], backing[j])

AppendOfEqualChangesNothing ==
    [][\A h \in Handlers :
          ( /\ pc[h] \in {"locked", "write"} /\ op[h] = "AppendBinding"
            /\ pc'[h] = "done"
            /\ \E i \in 1 .. blen : Equal(backing[i], arg[h]) )
          => Bindings' = Bindings]_vars

BindingSetHasNoDuplicates == []NoEqualBindings /\ AppendOfEqualChangesNothing

\* an AppendBinding has returned from inside its loop (at the equal binding
\* it found) while the set holds two bindings
AppendedEqualBinding ==
    \E h \in Handlers :
        /\ pc[h] = "done" /\ op[h] = "AppendBinding" /\ idx[h] > 0
        /\ blen = 2

\* the place of b in s
PlaceIn(s, b) == CHOOSE i \in 1 .. Len(s) : s[i] = b

\* t is s with some elements taken out, or s with one element added at its end
KeepsInsertionOrder(s, t) ==
    \/ /\ \A i \in 1 .. Len(t) : \E k \in 1 .. Len(s) : s[k] = t[i]
       /\ \A i, j \in 1 .. Len(t) : i < j => PlaceIn(s, t[i]) < PlaceIn(s, t[j])
    \/ /\ Len(t) = Len(s) + 1
       /\ SubSeq(t, 1, Len(s)) = s

\* the places of the bindings of s bound to (exchange, routingKey)
DirectHits(s, exchange, routingKey) ==
    {i \in 1 .. Len(s) : s[i].exchange = exchange /\ s[i].routingKey = routingKey}

\* C9: GetMatchedQueues on a direct exchange returns the queue of the
\* earliest-added binding still in the set whose exchange and routing key are
\* the message's, and the empty set when there is none; the loop stops at that
\* binding.  (The set keeps the order the bindings were added in.)
DirectRoutesToFirstMatch ==
    [][ /\ KeepsInsertionOrder(Bindings, Bindings')
        /\ \A h \in Handlers :
              (pc[h] = "scan" /\ pc'[h] = "done" /\ exType = ExTypeDirect) =>
                  LET hits == DirectHits(Bindings, arg[h].exchange, arg[h].routingKey) IN
                  IF hits = {}
                  THEN matched'[h] = {} /\ idx[h] = blen
                  ELSE LET first == CHOOSE i \in hits : \A j \in hits : i <= j IN
                       /\ matched'[h] = {Bindings[first].queue}
                       /\ idx[h] + 1 = first ]_vars

\* a direct exchange holding two bindings that match the same messages has
\* answered a query with the queue of the first of them
DirectRoutedToFirstOfTwo ==
    \E h \in Handlers :
        /\ exType = ExTypeDirect
        /\ pc[h] = "done" /\ op[h] = "GetMatchedQueues"
        /\ blen = 2
        /\ Bindings[1].exchange = Bindings[2].exchange
        /\ Bindings[1].routingKey = Bindings[2].routingKey
        /\ Bindings[1].queue # Bindings[2].queue
        /\ matched[h] = {Bindings[1].queue}

\* C10: GetMatchedQueues on a fanout exchange returns the queues of all the
\* bindings of the set whose exchange is the message's, whatever the
\* message's routing key.
FanoutRoutesToAllBound ==
    [][\A h \in Handlers :
          (pc[h] = "scan" /\ pc'[h] = "done" /\ exType = ExTypeFanout) =>
              matched'[h] =
                  {Bindings[i].queue :
                      i \in {k \in 1 .. blen : Bindings[k].exchange = arg[h].exchange}}]_vars

\* a fanout exchange has answered a query with two queues, one of them bound
\* with a routing key no message carries
FanoutRoutedToBoth ==
    \E h \in Handlers :
        /\ exType = ExTypeFanout
        /\ pc[h] = "done" /\ op[h] = "GetMatchedQueues"
        /\ blen = 2
        /\ \E i \in 1 .. 2 : Bindings[i].routingKey \notin MsgKeys
        /\ matched[h] = {Bindings[1].queue, Bindings[2].queue}
        /\ Cardinality(matched[h]) = 2

\* the bindings of s whose queue is q, and those whose queue is not, in order
OfQueue(s, q) == LET Bound(b) == b.queue = q IN SelectSeq(s, Bound)
NotOfQueue(s, q) == LET Unbound(b) == b.queue # q IN SelectSeq(s, Unbound)

\* C13: RemoveQueueBindings(q) returns exactly the bindings whose queue is q,
\* in their order, and leaves exactly the bindings whose queue is not q, in
\* their order; together they are the bindings there were, each once.
RemoveQueueBindingsPartitions ==
    [][\A h \in Handlers :
          (pc[h] = "write" /\ op[h] = "RemoveQueueBindings" /\ pc'[h] = "done") =>
              /\ removed'[h] = OfQueue(Bindings, arg[h].queue)
              /\ SubSeq(backing', 1, blen') = NotOfQueue(Bindings, arg[h].queue)
              /\ Len(removed'[h]) + blen' = blen
              /\ \A b \in BindingUniverse :
                    Cardinality({i \in 1 .. blen : Bindings[i] = b}) =
                        Cardinality({i \in DOMAIN removed'[h] : removed'[h][i] = b})
                      + Cardinality({i \in 1 .. blen' : backing'[i] = b})]_vars

\* RemoveQueueBindings returned two bindings, in the order they were appended
RemovedTwoOfQueue ==
    \E h \in Handlers :
        /\ pc[h] = "done" /\ op[h] = "RemoveQueueBindings"
        /\ Len(removed[h]) = 2
        /\ removed[h][1].routingKey = <<"*">>

\* the binding's header arguments against the message's headers: all of
\* its pairs for x-match all, one of them for x-match any
MatchHeaders(bind, headers) ==
    IF bind.arguments.xmatch = "all"
    THEN bind.arguments.pairs \subseteq headers
    ELSE bind.arguments.pairs \cap headers # {}

\* C11: GetMatchedQueues of a headers exchange returns the queue of every
\* binding whose header arguments the message's headers satisfy.
HeadersRoutesBySatisfiedPredicate ==
    (rtPc = "done" /\ rtType = ExTypeHeaders) =>
        rtResult.queues =
            {GetQueue(rtBindings[i]) :
                i \in {j \in DOMAIN rtBindings :
                          MatchHeaders(rtBindings[j], rtMessage.Headers)}}

\* C12: GetMatchedQueues of an exchange whose exType is none of the four
\* kinds returns an empty map, not a nil one, whatever the message and the
\* bindings.
UnknownKindRoutesNowhere ==
    ( /\ rtPc = "done"
      /\ rtType \notin {ExTypeDirect, ExTypeFanout, ExTypeTopic, ExTypeHeaders} ) =>
        ~rtResult.isNil /\ rtResult.queues = {}

\* an exchange of kind 5 with two bindings of the message's exchange was asked
UnknownKindRouted ==
    /\ rtPc = "done" /\ rtType = 5
    /\ Len(rtBindings) = 2
    /\ \A i \in DOMAIN rtBindings : rtBindings[i].exchange = rtMessage.Exchange

\* the fresh exchange has the name and the kind of the marshalled one, is
\* durable, and has the flags the record does not carry as they were: unset
RoundTripped ==
    /\ msOut.Name = msEx.Name
    /\ msOut.exType = msEx.exType
    /\ msOut.durable
    /\ ~msOut.autoDelete /\ ~msOut.internal

\* C14, as claimed: for every exchange, Unmarshal of its Marshal into a fresh
\* Exchange gives the same name and kind, and durable true; autoDelete and
\* internal are not carried over.
RecoveryRoundTrip == msPc = "done" => RoundTripped

\* C14, amended: the same for every exchange whose name is at most 255 bytes.
RecoveryRoundTripOfShortName ==
    (msPc = "done" /\ Len(msEx.Name) < ByteValues) => RoundTripped

\* a non-durable exchange with a name of 255 bytes and its flags set went
\* through the record
RoundTrippedLongestName ==
    /\ msPc = "done"
    /\ Len(msEx.Name) = ByteValues - 1
    /\ ~msEx.durable /\ msEx.autoDelete /\ msEx.internal
    /\ msEx.exType = ExTypeTopic

\* the attributes EqualWithErr compares, in its order, that differ
\* between a and b
DifferingAttributes(a, b) ==
    SelectSeq(<<"type", "durable", "autoDelete", "internal">>,
              LAMBDA n : \/ n = "type" /\ a.exType # b.exType
                         \/ n = "durable" /\ a.durable # b.durable
                         \/ n = "autoDelete" /\ a.autoDelete # b.autoDelete
                         \/ n = "internal" /\ a.internal # b.internal)

\* C19: EqualWithErr returns no error iff kind, durable, autoDelete and
\* internal are all equal, whatever the names and the system flags; otherwise
\* its error names the first of them that differs, in that order; and it
\* returns nil one way round iff it does the other way round.
EqualWithErrComparesFourInOrder ==
    (eqPc = "done") =>
        LET differing == DifferingAttributes(eqA, eqB) IN
        /\ (eqErr.code = "nil") = (differing = <<>>)
        /\ differing # <<>> => eqErr.text[1] = Head(differing)
        /\ (eqErr.code = "nil") = (eqErrBack.code = "nil")

\* exchanges of one kind that differ in name, system flag, durable and
\* internal were compared
ComparedDurableAndInternalDiffer ==
    /\ eqPc = "done"
    /\ eqA.Name # eqB.Name /\ eqA.system # eqB.system
    /\ eqA.exType = eqB.exType
    /\ eqA.durable # eqB.durable /\ eqA.autoDelete = eqB.autoDelete
    /\ eqA.internal # eqB.internal

\* what the slice GetBindings returned to handler h reads as
Got(h) == IF got[h].shared THEN SubSeq(backing, 1, got[h].len) ELSE got[h].arr

\* C20: a sequence GetBindings returned is a snapshot: every later step of
\* AppendBinding, RemoveBinding or RemoveQueueBindings that changes the
\* binding set leaves it reading what it read.
ReturnedBindingsAreSnapshot ==
    [][\A h \in Handlers :
          (backing' # backing \/ blen' # blen) => Got(h)' = Got(h)]_vars

(***************************************************************************)
(* Properties of exchangeDeclare.                                          *)
(***************************************************************************)
\* the name begins with "amq."
IsReserved(name) ==
    /\ Len(name) >= 4
    /\ name[1] = "a" /\ name[2] = "m" /\ name[3] = "q" /\ name[4] = "."

KnownAlias(alias) == alias \in {"direct", "fanout", "topic", "headers"}

Registered(name) == name \in DOMAIN exchanges

\* channel c takes the step of exchangeDeclare that looks the registry up
Declares(c) == chPc[c] = "declare" /\ chPc'[c] # "declare"

\* the method asks for the kind and the flags the exchange has
SameAttributes(method, ex) ==
    /\ KnownAlias(method.Type)
    /\ exchangeTypeAliasIDMap[method.Type] = ex.exType
    /\ method.Durable = ex.durable
    /\ method.AutoDelete = ex.autoDelete
    /\ method.Internal = ex.internal

\* the call of channel c returns here, and has not changed the registry
ReturnsWithoutRegistering(c) == exchanges' = exchanges /\ chPc'[c] = "done"

\* declare-ok for the same attributes, precondition-failed for others
RedeclareAnswered(c) ==
    IF SameAttributes(chMethod[c], exchanges[chMethod[c].Exchange])
    THEN chErr'[c] = NoError /\ chSent'[c]
    ELSE chErr'[c].code = "PreconditionFailed" /\ ~chSent'[c]

\* C3, as claimed: a non-passive declare of a registered name changes nothing
\* in the registry; it is answered with declare-ok when kind, durable,
\* autoDelete and internal are the exchange's, and with precondition-failed
\* (and no declare-ok) when one of them differs.
RedeclareIsNoOpOrConflict ==
    [][\A c \in Channels :
          (Declares(c) /\ ~chMethod[c].Passive /\ Registered(chMethod[c].Exchange)) =>
              ReturnsWithoutRegistering(c) /\ RedeclareAnswered(c)]_vars

\* C3, amended: the same, the two answers for a name that does not begin
\* with "amq." and a kind alias that is known.
RedeclareOfPlainNameIsNoOpOrConflict ==
    [][\A c \in Channels :
          (Declares(c) /\ ~chMethod[c].Passive /\ Registered(chMethod[c].Exchange)) =>
              /\ ReturnsWithoutRegistering(c)
              /\ (KnownAlias(chMethod[c].Type) /\ ~IsReserved(chMethod[c].Exchange))
                     => RedeclareAnswered(c)]_vars

\* a redeclare has been refused as inequivalent while another channel's
\* declare of a registered name was acknowledged
RedeclareRefusedAndAccepted ==
    \E c, d \in Channels :
        /\ chPc[c] = "done" /\ chErr[c].code = "PreconditionFailed" /\ ~chSent[c]
        /\ chPc[d] = "done" /\ chErr[d] = NoError /\ chSent[d]
        /\ chNew[d] # NoExchange /\ Registered(chNew[d].Name)

\* two channels were acknowledged declares of one name with different attributes
TwoDifferingAcknowledged ==
    \E c, d \in Channels :
        /\ c # d
        /\ chPc[c] = "done" /\ chErr[c] = NoError /\ chSent[c] /\ chNew[c] # NoExchange
        /\ chPc[d] = "done" /\ chErr[d] = NoError /\ chSent[d] /\ chNew[d] # NoExchange
        /\ chNew[c].Name = chNew[d].Name
        /\ chNew[c] # chNew[d]

\* C4: a name is registered once: the exchange registered under a name is
\* never replaced, and no two declares of one name with different attributes
\* are both acknowledged.
NameRegisteredOnce ==
    /\ [] ~TwoDifferingAcknowledged
    /\ [][\A n \in DOMAIN exchanges :
             n \in DOMAIN exchanges' /\ exchanges'[n] = exchanges[n]]_vars

\* C5: a passive declare registers nothing; with a name and a known kind
\* alias it returns no error and sends nothing when no-wait is set, and
\* otherwise returns not-found for an absent exchange and sends declare-ok
\* for a present one.
PassiveDeclareOnlyQueries ==
    [][\A c \in Channels :
          (Declares(c) /\ chMethod[c].Passive) =>
              /\ ReturnsWithoutRegistering(c)
              /\ chNew'[c] = NoExchange
              /\ (chMethod[c].Exchange # <<>> /\ KnownAlias(chMethod[c].Type)) =>
                    IF chMethod[c].NoWait
                    THEN chErr'[c] = NoError /\ ~chSent'[c]
                    ELSE IF ~Registered(chMethod[c].Exchange)
                    THEN chErr'[c].code = "NotFound" /\ ~chSent'[c]
                    ELSE chErr'[c] = NoError /\ chSent'[c]]_vars

\* one passive declare was answered not-found and another declare-ok
PassiveDeclaresAnswered ==
    \E c, d \in Channels :
        /\ chPc[c] = "done" /\ chErr[c].code = "NotFound"
        /\ chPc[d] = "done" /\ chErr[d] = NoError /\ chSent[d] /\ chNew[d] = NoExchange

DeclaredExchangesAreValid ==
    \A n \in DOMAIN exchanges :
        ~exchanges[n].system =>
            /\ n # <<>> /\ ~IsReserved(n)
            /\ exchanges[n].Name = n
            /\ exchanges[n].exType \in
                  {ExTypeDirect, ExTypeFanout, ExTypeTopic, ExTypeHeaders}

\* the call returns an error, has sent no declare-ok and registers nothing
Rejected(c) ==
    /\ ReturnsWithoutRegistering(c)
    /\ chErr'[c] # NoError /\ ~chSent'[c]

RECURSIVE AfterBatch(_, _)
AfterBatch(batch, d) ==
    IF batch = <<>> THEN d
    ELSE LET o == Head(batch)
         IN  AfterBatch(Tail(batch),
                        IF o.Op = OpSet
                        THEN [k \in DOMAIN d \cup {o.Key} |->
                                 IF k = o.Key THEN o.Value ELSE d[k]]
                        ELSE [k \in DOMAIN d \ {o.Key} |-> d[k]])

\* the transaction rejects an operation of the batch, begun on the items d:
\* a Delete of a key that has no item by then
RECURSIVE Rejects(_, _)
Rejects(batch, d) ==
    /\ batch # <<>>
    /\ \/ Head(batch).Op = OpDel /\ Head(batch).Key \notin DOMAIN d
       \/ Rejects(Tail(batch), AfterBatch(<<Head(batch)>>, d))

\* C15: Get returns the value of the key's item and no error when the store
\* has one, and a non-nil error when it has none.
GetReportsAbsence ==
    [][\A c \in Clients :
          (stPc[c] = "get" /\ stPc'[c] = "done") =>
              IF stKey[c] \in DOMAIN db
              THEN stErr'[c] = "nil" /\ stValue'[c] = Bytes(db[stKey[c]])
              ELSE stErr'[c] # "nil"]_vars

\* client c returns from ProcessBatch
BatchReturns(c) == stPc[c] = "batch" /\ stPc'[c] = "done"

\* C8: ProcessBatch is one atomic transaction: when it returns, either it
\* returns no error, no operation was rejected and every operation is in the
\* store, or it returns the failure and the store is as it was before the
\* batch; and no Get or Iterate reads the store while a batch is open.
BatchIsAtomic ==
    /\ [][\A c \in Clients :
             BatchReturns(c) =>
                 \/ /\ stErr'[c] = "nil"
                    /\ ~Rejects(stBatch[c], rollback)
                    /\ db' = AfterBatch(stBatch[c], rollback)
                 \/ /\ stErr'[c] # "nil"
                    /\ db' = rollback]_vars
    /\ [][\A c \in Clients :
             (stValue'[c] # stValue[c] \/ stSeen'[c] # stSeen[c]) => mu = NoClient]_vars
    /\ [](mu # NoClient => readers = {})

\* what Set or Del of the operation o gives on the items d
AsSetOrDel(o, d) ==
    IF o.Op = OpSet
    THEN Update(d, TxSet(d, o.Key, o.Value))
    ELSE Update(d, TxDelete(d, o.Key))

\* C16: ProcessBatch of one operation leaves the store and returns the error
\* that Set, or Del, of that operation does on the same store.
SingleOperationBatchIsSetOrDel ==
    [][\A c \in Clients :
          (BatchReturns(c) /\ Len(stBatch[c]) = 1) =>
              [db |-> db', err |-> stErr'[c]] \in AsSetOrDel(stBatch[c][1], rollback)]_vars

\* the place of key k in the ascending order
PlaceOfKey(k) == CHOOSE i \in DOMAIN KeyOrder : KeyOrder[i] = k

\* the pairs the visitor was given are items of the store, in ascending key
\* order, no key twice
SeenAscending(c) ==
    /\ \A i \in DOMAIN stSeen[c] :
          stSeen[c][i][1] \in DOMAIN db /\ stSeen[c][i][2] = db[stSeen[c][i][1]]
    /\ \A i, j \in DOMAIN stSeen[c] :
          i < j => PlaceOfKey(stSeen[c][i][1]) < PlaceOfKey(stSeen[c][j][1])

\* C17: Iterate gives the visitor the items of the store in ascending key
\* order, each key once, all of them unless the visitor stops the scan; once
\* the visitor has asked to stop it is given no further item.
IterateAscendsAndStops ==
    /\ [](\A c \in Clients : stPc[c] = "iter" => SeenAscending(c))
    /\ [][\A c \in Clients :
             (stPc[c] = "iter" /\ stPc'[c] = "done" /\ ~stStop[c]) =>
                 {stSeen[c][i][1] : i \in DOMAIN stSeen[c]} = DOMAIN db]_vars
    /\ [][\A c \in Clients :
             (stPc[c] = "iter" /\ stStop[c]) => stSeen'[c] = stSeen[c]]_vars

\* C18: the one compaction task is stopped at Close: once the database is
\* closed the task calls db.Shrink no more, and it ends.
CompactionStopsAtClose ==
    /\ [][closed => ~(gcPc = "shrink" /\ gcPc' # "shrink")]_vars
    /\ (closed ~> gcPc = "stopped")

====
